---- MODULE Spec2Model ----
(***************************************************************************)
(* A model of three parts of the truck B-rep kernel:                       *)
(*   - CurveElement::homotopy (truck_shape/src/curve_element.rs), the      *)
(*     lofting constructor over edges and wires;                           *)
(*   - face_buffer and the Shell/Solid IntoInstance implementations        *)
(*     (truck-rendimpl/src/shaperend.rs), the boundary tessellation;       *)
(*   - the B-spline surface of the crate documentation                     *)
(*     (truck_geometry/src/lib.rs).                                        *)
(* The topology crate (Wire, Face), the Director/Builder and the B-spline  *)
(* algorithms are not part of the sources at hand; they are modelled from  *)
(* the written specification and are marked as such where they appear.     *)
(***************************************************************************)
EXTENDS Integers, Sequences, FiniteSets, TLC

VARIABLES
    director,   \* the geometry binding: points, curves, surfaces
    ids,        \* the topology identity counters: next edge id, next face id
    phase,      \* "idle" before the homotopy call, "returned" after it
    operands,   \* <<c0, c1>> of the homotopy call (<<>> before the call)
    before,     \* the binding and the counters as they were when the call began
    result,     \* what the call gave back: Ok(shell), Err(error) or an abort
    swallowed,  \* failures of sub-steps whose error value the call discarded
    shape,      \* the Shell or Solid being drawn
    inst,       \* ShapeInstance.faces: the buffer of each face (<<>>: no instance yet)
    mutex,      \* per face of the instance (Mutex<FaceBuffer>): "free", "held" by
                \* update_instance, or "read": held by a reader
    op,         \* the running operation: "none", "into" or "update"
    pc,         \* where the running operation stands
    fi,         \* the index of the face the operation is at
    made,       \* into_instance: the FaceInstances collected so far
    ei,         \* face_buffer: the index of the boundary edge
    ti,         \* face_buffer: the index into the division of the edge
    hint,       \* face_buffer: the hint
    this_boundary,  \* face_buffer: the parameters found on this edge
    boundary,   \* face_buffer: the segments emitted so far
    created,    \* the device buffers the running face_buffer call has created
    calls,      \* the search_parameter calls of the running face_buffer call
    ret,        \* what the last face_buffer call returned
    update_log, \* update_instance: the buffers as they were when it began (old)
                \* and the buffers face_buffer has returned to it since (new)
    knot_vec0,  \* doc example: the u knot vector (<<>> before it is made)
    knot_vec1,  \* doc example: the v knot vector (<<>> before it is made)
    control_points,  \* doc example: the control grid v (<<>> before it is made)
    bspline,    \* doc example: the surface built by BSplineSurface::new
    gpc         \* doc example: where the construction stands

hvars == <<director, ids, phase, operands, before, result, swallowed>>

tvars == <<shape, inst, mutex, op, pc, fi, made, ei, ti, hint, this_boundary,
           boundary, created, calls, ret, update_log>>

gvars == <<knot_vec0, knot_vec1, control_points, bspline, gpc>>

vars == <<hvars, tvars, gvars>>

(***************************************************************************)
(* Bounds of the model.                                                    *)
(***************************************************************************)
RingSize == 3
MaxWireLen == 3

(***************************************************************************)
(* Topology.  An edge is an identity, its two vertices and an orientation  *)
(* bit; the inverse edge is the same identity with the bit flipped.        *)
(***************************************************************************)
EdgeOf(i, a, b) == [id |-> i, v0 |-> a, v1 |-> b, ori |-> TRUE]

EdgeFront(e) == IF e.ori THEN e.v0 ELSE e.v1

EdgeBack(e) == IF e.ori THEN e.v1 ELSE e.v0

EdgeInverse(e) == [e EXCEPT !.ori = ~e.ori]

\* Two families of vertices, one per operand: 1..RingSize and the next RingSize.
FamilyBase(f) == f * RingSize

Vertices == 1..(2 * RingSize)

\* The edges that exist before the call, per family: a ring through all its
\* vertices, a chord from the second vertex back to the first, and a loop edge
\* at the first vertex.
FamilyEdges(f) ==
    LET b == FamilyBase(f)
        eb == f * (RingSize + 2)
    IN  { EdgeOf(eb + i, b + i, b + (i % RingSize) + 1) : i \in 1..RingSize }
        \cup { EdgeOf(eb + RingSize + 1, b + 2, b + 1),
               EdgeOf(eb + RingSize + 2, b + 1, b + 1) }

BaseEdges == FamilyEdges(0) \cup FamilyEdges(1)

BaseEdgeIds == { e.id : e \in BaseEdges }

FirstFreeEdgeId == 2 * (RingSize + 2) + 1

\* Wire invariant of the topology: consecutive edges meet.
IsContinuous(w) == \A i \in 1..(Len(w) - 1) : EdgeBack(w[i]) = EdgeFront(w[i + 1])

WiresOver(E) ==
    { w \in UNION { [1..n -> E] : n \in 1..MaxWireLen } :
        /\ IsContinuous(w)
        /\ \A i, j \in 1..Len(w) : i # j => w[i].id # w[j].id }

\* A curve element is an Edge or a Wire (the two implementors of CurveElement).
EdgeElem(e) == [kind |-> "Edge", edges |-> <<e>>]

WireElem(w) == [kind |-> "Wire", edges |-> w]

ElementsOver(E) == { EdgeElem(e) : e \in E } \cup { WireElem(w) : w \in WiresOver(E) }

(***************************************************************************)
(* Wire and Face of the topology crate, from the written specification     *)
(* (section 4.3).  An optional vertex is a sequence of length 0 or 1.      *)
(***************************************************************************)
WireFrontVertex(w) == IF Len(w) = 0 THEN <<>> ELSE <<EdgeFront(w[1])>>

WireBackVertex(w) == IF Len(w) = 0 THEN <<>> ELSE <<EdgeBack(w[Len(w)])>>

\* true iff nonempty and front_vertex() == back_vertex()
WireIsClosed(w) == Len(w) > 0 /\ WireFrontVertex(w) = WireBackVertex(w)

\* push_back(edge): requires wire.back_vertex() == edge.front_vertex() or the
\* wire empty; else it fails with CannotAddEdge and the wire is as it was.
WirePushBack(w, e) ==
    IF Len(w) = 0 \/ EdgeBack(w[Len(w)]) = EdgeFront(e)
    THEN [ok |-> TRUE, err |-> "", wire |-> Append(w, e)]
    ELSE [ok |-> FALSE, err |-> "CannotAddEdge", wire |-> w]

\* append(other): concatenates, with the same compatibility check at the join.
WireAppend(w, other) ==
    IF Len(w) = 0 \/ Len(other) = 0 \/ EdgeBack(w[Len(w)]) = EdgeFront(other[1])
    THEN [ok |-> TRUE, err |-> "", wire |-> w \o other]
    ELSE [ok |-> FALSE, err |-> "CannotAddEdge", wire |-> w]

\* inverse(): reverses the order and flips every edge orientation.
WireInverse(w) == [i \in 1..Len(w) |-> EdgeInverse(w[Len(w) + 1 - i])]

\* split_off(k): returns the suffix starting at index k; the original keeps the
\* prefix.  The pair is <<prefix, suffix>>.
WireSplitOff(w, k) == <<SubSeq(w, 1, k), SubSeq(w, k + 1, Len(w))>>

\* Face::try_new(wire): EmptyWire if empty, NotClosedWire if not closed.
FaceTryNew(w, faceId) ==
    IF Len(w) = 0 THEN [ok |-> FALSE, err |-> "EmptyWire", face |-> [id |-> faceId, boundary |-> w]]
    ELSE IF ~WireIsClosed(w)
         THEN [ok |-> FALSE, err |-> "NotClosedWire", face |-> [id |-> faceId, boundary |-> w]]
         ELSE [ok |-> TRUE, err |-> "", face |-> [id |-> faceId, boundary |-> w]]

(***************************************************************************)
(* Director, Builder and the geometry binding, from the written            *)
(* specification (sections 4.2, 4.4, 4.5).  A curve is the sequence of the *)
(* oriented carriers it was concatenated from; a lofted surface is the     *)
(* pair of its two boundary curves.                                        *)
(***************************************************************************)
OrientedCarrier(e) == [id |-> e.id, ori |-> e.ori]

\* get_oriented_curve(edge): NoGeometry if the edge has no curve.
GetOrientedCurve(e, dir) ==
    IF e.id \in dir.curves
    THEN [ok |-> TRUE, err |-> "", curve |-> <<OrientedCarrier(e)>>]
    ELSE [ok |-> FALSE, err |-> "NoGeometry", curve |-> <<>>]

\* bspline_by_wire(wire): concatenates the per-edge oriented curves.
BsplineByWire(w, dir) ==
    IF \A i \in 1..Len(w) : w[i].id \in dir.curves
    THEN [ok |-> TRUE, err |-> "", curve |-> [i \in 1..Len(w) |-> OrientedCarrier(w[i])]]
    ELSE [ok |-> FALSE, err |-> "NoGeometry", curve |-> <<>>]

\* BSplineSurface::homotopy(c0, c1): row 0 from c0, row 1 from c1.
SurfaceHomotopy(c0, c1) == [row0 |-> c0, row1 |-> c1]

\* Builder::line(v0, v1): a fresh edge from v0 to v1 with a degree-1 curve between
\* the points of v0 and v1, registered in the binding; NoGeometry if a vertex
\* has no point.
BuilderLine(a, b, dir, id) ==
    IF a \in dir.points /\ b \in dir.points
    THEN [ok |-> TRUE, err |-> "", edge |-> EdgeOf(id.edge, a, b),
          dir |-> [dir EXCEPT !.curves = @ \cup {id.edge}],
          ids |-> [id EXCEPT !.edge = @ + 1]]
    ELSE [ok |-> FALSE, err |-> "NoGeometry", edge |-> EdgeOf(id.edge, a, b),
          dir |-> dir, ids |-> id]

\* Director::insert(&face, surface): overwrites.
DirectorInsert(dir, face, surface) ==
    [dir EXCEPT !.surfaces =
        { s \in @ : s.face # face.id } \cup {[face |-> face.id, surface |-> surface]}]

(***************************************************************************)
(* impl CurveElement for Edge / for Wire (curve_element.rs, 81-110).       *)
(***************************************************************************)
front_vertex(el) == EdgeFront(el.edges[1])

back_vertex(el) == EdgeBack(el.edges[Len(el.edges)])

get_geometry(el, dir) ==
    IF el.kind = "Edge" THEN GetOrientedCurve(el.edges[1], dir)
    ELSE BsplineByWire(el.edges, dir)

clone_wire(el) == el.edges

is_closed(el) == IF el.kind = "Edge" THEN FALSE ELSE WireIsClosed(el.edges)

\* split_wire with the wire split after the larger half
split_wire_ceil(el) ==
    IF el.kind = "Edge" THEN <<>>
    ELSE IF Len(el.edges) < 2 THEN <<>>
         ELSE WireSplitOff(el.edges, (Len(el.edges) + 1) \div 2)

\* Option<[Wire; 2]>: <<>> is None, <<part0, part1>> is Some([part0, part1]).
split_wire(el) ==
    IF el.kind = "Edge" THEN <<>>
    ELSE IF Len(el.edges) < 2 THEN <<>>
         ELSE WireSplitOff(el.edges, Len(el.edges) \div 2)

(***************************************************************************)
(* Results of a homotopy call.                                             *)
(***************************************************************************)
Ok(faces) == [kind |-> "Ok", err |-> "", faces |-> faces]

Err(e) == [kind |-> "Err", err |-> e, faces |-> <<>>]

\* a panic: an unwrap() of None unwinds out of the call
Abort == [kind |-> "Abort", err |-> "", faces |-> <<>>]

Return(res, dir, id, dropped) == [res |-> res, dir |-> dir, ids |-> id, swallowed |-> dropped]

\* The result of a push_back or append is a statement of its own in the code
\* (no `?`): the wire goes on as the operation left it and a failure is dropped.
Discard(acc, r) ==
    [wire |-> r.wire, dropped |-> IF r.ok THEN acc.dropped ELSE acc.dropped + 1]

(***************************************************************************)
(* open_homotopy (curve_element.rs, 28-48).                                *)
(***************************************************************************)
RECURSIVE for_each_push_inverse(_, _)
\* elem1.for_each(|edge| wire.push_back(edge.inverse())): the edges of elem1 in
\* their own order, each inverted.
for_each_push_inverse(acc, edges) ==
    IF Len(edges) = 0 THEN acc
    ELSE for_each_push_inverse(
             Discard(acc, WirePushBack(acc.wire, EdgeInverse(Head(edges)))),
             Tail(edges))

\* lines 41-44: the boundary wire, assembled
open_boundary(elem0, elem1, edge0, edge1) ==
    LET a0 == [wire |-> clone_wire(elem0), dropped |-> 0]
        a1 == Discard(a0, WirePushBack(a0.wire, edge0))
        a2 == for_each_push_inverse(a1, elem1.edges)
    IN  Discard(a2, WirePushBack(a2.wire, edge1))

\* open_face with the result of Face::try_new not looked at: the face is made
\* of the wire whatever it is
open_face_unchecked(acc, surface, dir, id) ==
    LET f == FaceTryNew(acc.wire, id.face)
    IN  Return(Ok(<<f.face>>), DirectorInsert(dir, f.face, surface),
               [id EXCEPT !.face = @ + 1], acc.dropped)

\* lines 45-47: the face, its surface registered
open_face(acc, surface, dir, id) ==
    LET f == FaceTryNew(acc.wire, id.face)
    IN  IF ~f.ok THEN Return(Err(f.err), dir, id, acc.dropped)
        ELSE Return(Ok(<<f.face>>), DirectorInsert(dir, f.face, surface),
                    [id EXCEPT !.face = @ + 1], acc.dropped)

open_homotopy(elem0, elem1, dir, id) ==
    LET g0 == get_geometry(elem0, dir)
        g1 == get_geometry(elem1, dir)
        surface == SurfaceHomotopy(g0.curve, g1.curve)
        l0 == BuilderLine(back_vertex(elem0), back_vertex(elem1), dir, id)
        l1 == BuilderLine(front_vertex(elem1), front_vertex(elem0), l0.dir, l0.ids)
    IN  IF ~g0.ok THEN Return(Err(g0.err), dir, id, 0)
        ELSE IF ~g1.ok THEN Return(Err(g1.err), dir, id, 0)
        ELSE IF ~l0.ok THEN Return(Err(l0.err), l0.dir, l0.ids, 0)
        ELSE IF ~l1.ok THEN Return(Err(l1.err), l1.dir, l1.ids, 0)
        ELSE open_face(open_boundary(elem0, elem1, l0.edge, l1.edge),
                       surface, l1.dir, l1.ids)

(***************************************************************************)
(* closed_homotopy (curve_element.rs, 50-79).                              *)
(***************************************************************************)
\* lines 68-70 and 71-73: one boundary wire: a half of elem0, a bridge, the
\* inverse of the half of elem1, the other bridge inverted
closed_boundary(half0, half1, bridge, bridgeBack) ==
    LET a0 == [wire |-> half0, dropped |-> 0]
        a1 == Discard(a0, WirePushBack(a0.wire, bridge))
        a2 == Discard(a1, WireAppend(a1.wire, WireInverse(half1)))
    IN  Discard(a2, WirePushBack(a2.wire, EdgeInverse(bridgeBack)))

\* the two faces both made from the first boundary wire
closed_faces_first_twice(b0, b1, surface0, surface1, dir, id) ==
    LET dropped == b0.dropped + b1.dropped
        f0 == FaceTryNew(b0.wire, id.face)
        f1 == FaceTryNew(b0.wire, id.face + 1)
    IN  IF ~f0.ok THEN Return(Err(f0.err), dir, id, dropped)
        ELSE IF ~f1.ok THEN Return(Err(f1.err), dir, [id EXCEPT !.face = @ + 1], dropped)
        ELSE Return(Ok(<<f0.face, f1.face>>),
                    DirectorInsert(DirectorInsert(dir, f0.face, surface0), f1.face, surface1),
                    [id EXCEPT !.face = @ + 2], dropped)

\* lines 74-78: the two faces, their surfaces registered
closed_faces(b0, b1, surface0, surface1, dir, id) ==
    LET dropped == b0.dropped + b1.dropped
        f0 == FaceTryNew(b0.wire, id.face)
        f1 == FaceTryNew(b1.wire, id.face + 1)
    IN  IF ~f0.ok THEN Return(Err(f0.err), dir, id, dropped)
        ELSE IF ~f1.ok THEN Return(Err(f1.err), dir, [id EXCEPT !.face = @ + 1], dropped)
        ELSE Return(Ok(<<f0.face, f1.face>>),
                    DirectorInsert(DirectorInsert(dir, f0.face, surface0), f1.face, surface1),
                    [id EXCEPT !.face = @ + 2], dropped)

closed_homotopy(elem0, elem1, dir, id) ==
    LET s0 == split_wire(elem0)
        s1 == split_wire(elem1)
    IN  IF Len(s0) = 0 \/ Len(s1) = 0 THEN Return(Abort, dir, id, 0)
        ELSE
        LET wire0 == s0[1]
            wire1 == s0[2]
            wire2 == s1[1]
            wire3 == s1[2]
            g0 == BsplineByWire(wire0, dir)
            g2 == BsplineByWire(wire2, dir)
            g1 == BsplineByWire(wire1, dir)
            g3 == BsplineByWire(wire3, dir)
            surface0 == SurfaceHomotopy(g0.curve, g2.curve)
            surface1 == SurfaceHomotopy(g1.curve, g3.curve)
            f0 == WireFrontVertex(wire0)
            f2 == WireFrontVertex(wire2)
            k0 == WireBackVertex(wire0)
            k2 == WireBackVertex(wire2)
            l0 == BuilderLine(f0[1], f2[1], dir, id)
            l1 == BuilderLine(k0[1], k2[1], l0.dir, l0.ids)
        IN  IF ~g0.ok THEN Return(Err(g0.err), dir, id, 0)
            ELSE IF ~g2.ok THEN Return(Err(g2.err), dir, id, 0)
            ELSE IF ~g1.ok THEN Return(Err(g1.err), dir, id, 0)
            ELSE IF ~g3.ok THEN Return(Err(g3.err), dir, id, 0)
            ELSE IF Len(f0) = 0 \/ Len(f2) = 0 THEN Return(Abort, dir, id, 0)
            ELSE IF ~l0.ok THEN Return(Err(l0.err), l0.dir, l0.ids, 0)
            ELSE IF Len(k0) = 0 \/ Len(k2) = 0 THEN Return(Abort, l0.dir, l0.ids, 0)
            ELSE IF ~l1.ok THEN Return(Err(l1.err), l1.dir, l1.ids, 0)
            ELSE closed_faces(closed_boundary(wire0, wire2, l1.edge, l0.edge),
                              closed_boundary(wire1, wire3, l0.edge, l1.edge),
                              surface0, surface1, l1.dir, l1.ids)

(***************************************************************************)
(* CurveElement::homotopy (curve_element.rs, 14-25).                       *)
(***************************************************************************)
\* homotopy with the second test written with `||`: a mixed pair is lofted as
\* an open one
homotopy_mixed_as_open(elem0, elem1, dir, id) ==
    LET closed0 == is_closed(elem0)
        closed1 == is_closed(elem1)
    IN  IF closed0 /\ closed1 THEN closed_homotopy(elem0, elem1, dir, id)
        ELSE IF ~closed0 \/ ~closed1 THEN open_homotopy(elem0, elem1, dir, id)
        ELSE Return(Err("DifferentHomotopyType"), dir, id, 0)

homotopy(elem0, elem1, dir, id) ==
    LET closed0 == is_closed(elem0)
        closed1 == is_closed(elem1)
    IN  IF closed0 /\ closed1 THEN closed_homotopy(elem0, elem1, dir, id)
        ELSE IF ~closed0 /\ ~closed1 THEN open_homotopy(elem0, elem1, dir, id)
        ELSE Return(Err("DifferentHomotopyType"), dir, id, 0)

(***************************************************************************)
(* The state machine of one homotopy call.  The elements that exist before *)
(* the call were made either through the Builder (which registers their    *)
(* geometry) or through the topology crate alone (which registers none):   *)
(* the binding of the initial state lacks the point of at most one vertex  *)
(* or the curve of at most one edge.  The operands are non-empty and come  *)
(* from the two families, one each.                                        *)
(***************************************************************************)
Bindings ==
    { [points |-> Vertices, curves |-> BaseEdgeIds, surfaces |-> {}] }
    \cup { [points |-> Vertices \ {v}, curves |-> BaseEdgeIds, surfaces |-> {}] : v \in Vertices }
    \cup { [points |-> Vertices, curves |-> BaseEdgeIds \ {e}, surfaces |-> {}] : e \in BaseEdgeIds }

\* no surface is being constructed
GIdle ==
    /\ knot_vec0 = <<>>
    /\ knot_vec1 = <<>>
    /\ control_points = <<>>
    /\ bspline = [kind |-> "NotBuilt"]
    /\ gpc = "idle"

\* no drawing operation is running and no instance exists
TIdle ==
    /\ shape = <<>>
    /\ inst = <<>>
    /\ mutex = <<>>
    /\ op = "none"
    /\ pc = "idle"
    /\ fi = 0
    /\ made = <<>>
    /\ ei = 0
    /\ ti = 0
    /\ hint = <<0, 0>>
    /\ this_boundary = <<>>
    /\ boundary = <<>>
    /\ created = {}
    /\ calls = <<>>
    /\ ret = [kind |-> "NotCalled"]
    /\ update_log = [old |-> <<>>, new |-> <<>>]

HInit ==
    /\ TIdle
    /\ GIdle
    /\ director \in Bindings
    /\ ids = [edge |-> FirstFreeEdgeId, face |-> 1]
    /\ phase = "idle"
    /\ operands = <<>>
    /\ before = [dir |-> director, ids |-> ids]
    /\ result = Ok(<<>>)
    /\ swallowed = 0

Homotopy ==
    /\ phase = "idle"
    /\ \E f \in {0, 1} :
       \E c0 \in ElementsOver(FamilyEdges(f)), c1 \in ElementsOver(FamilyEdges(1 - f)) :
          LET r == homotopy(c0, c1, director, ids)
          IN  /\ operands' = <<c0, c1>>
              /\ before' = [dir |-> director, ids |-> ids]
              /\ result' = r.res
              /\ director' = r.dir
              /\ ids' = r.ids
              /\ swallowed' = r.swallowed
              /\ phase' = "returned"
    /\ UNCHANGED <<tvars, gvars>>

HNext == Homotopy

Spec == HInit /\ [][HNext]_vars

(***************************************************************************)
(* Properties of the homotopy call.                                        *)
(***************************************************************************)
Returned == phase = "returned"

\* every vertex has its point and every edge its curve when the call begins
GeometryComplete == before.dir.points = Vertices /\ before.dir.curves = BaseEdgeIds

CurveOfWire(w) == [i \in 1..Len(w) |-> OrientedCarrier(w[i])]

\* e is an edge made during the call by Builder::line(a, b)
IsBridge(e, a, b) ==
    /\ e.id \notin BaseEdgeIds
    /\ e.id \in director.curves
    /\ e.v0 = a
    /\ e.v1 = b

HasSurface(face, surface) == [face |-> face.id, surface |-> surface] \in director.surfaces

MixedCall == Returned /\ is_closed(operands[1]) # is_closed(operands[2])

OpenCall == Returned /\ ~is_closed(operands[1]) /\ ~is_closed(operands[2])

ClosedCall == Returned /\ is_closed(operands[1]) /\ is_closed(operands[2])

\* C1: a call with one closed and one open operand, in either order (an Edge is
\* always open), returns Err(DifferentHomotopyType) and leaves the binding and
\* the identity counters as they were: no edge, face or geometry is made.
C1_MixedFails ==
    MixedCall =>
        /\ result = Err("DifferentHomotopyType")
        /\ director = before.dir
        /\ ids = before.ids

\* C1 witness: a closed wire lofted with an Edge has been refused.
C1_Witness ==
    /\ MixedCall
    /\ is_closed(operands[1])
    /\ operands[2].kind = "Edge"
    /\ result.err = "DifferentHomotopyType"

\* C2: two open operands (with their geometry registered) give a shell of one
\* face whose boundary is c0, the bridge c0.back -> c1.back, c1 reversed (its
\* edges in reverse order, each inverted), the bridge c1.front -> c0.front.
C2_OpenBoundary ==
    (OpenCall /\ GeometryComplete) =>
        /\ result.kind = "Ok"
        /\ Len(result.faces) = 1
        /\ LET c0 == operands[1].edges
               c1 == operands[2].edges
               b == result.faces[1].boundary
               n0 == Len(c0)
               n1 == Len(c1)
           IN  /\ Len(b) = n0 + n1 + 2
               /\ SubSeq(b, 1, n0) = c0
               /\ b[n0 + 1].ori
               /\ IsBridge(b[n0 + 1], back_vertex(operands[1]), back_vertex(operands[2]))
               /\ SubSeq(b, n0 + 2, n0 + n1 + 1) = WireInverse(c1)
               /\ b[n0 + n1 + 2].ori
               /\ IsBridge(b[n0 + n1 + 2], front_vertex(operands[2]), front_vertex(operands[1]))

\* C3: two closed operands (with their geometry registered), whatever their edge
\* counts, give Ok with a shell of two faces: the first lofts the first halves
\* (split at Len \div 2), the second the second halves, joined by the bridges
\* front -> front and back-of-first-half -> back-of-first-half.
C3_ClosedTwoFaces ==
    (ClosedCall /\ GeometryComplete) =>
        /\ result.kind = "Ok"
        /\ Len(result.faces) = 2
        /\ LET c0 == operands[1].edges
               c1 == operands[2].edges
               h0 == Len(c0) \div 2
               h1 == Len(c1) \div 2
               w0 == SubSeq(c0, 1, h0)
               w1 == SubSeq(c0, h0 + 1, Len(c0))
               w2 == SubSeq(c1, 1, h1)
               w3 == SubSeq(c1, h1 + 1, Len(c1))
               b0 == result.faces[1].boundary
               b1 == result.faces[2].boundary
           IN  /\ Len(w0) > 0 /\ Len(w2) > 0
               /\ Len(b0) = Len(w0) + Len(w2) + 2
               /\ Len(b1) = Len(w1) + Len(w3) + 2
               /\ LET e1 == b0[Len(w0) + 1]
                      e0 == b1[Len(w1) + 1]
                  IN  /\ e0.ori /\ e1.ori
                      /\ IsBridge(e0, EdgeFront(w0[1]), EdgeFront(w2[1]))
                      /\ IsBridge(e1, EdgeBack(w0[Len(w0)]), EdgeBack(w2[Len(w2)]))
                      /\ b0 = w0 \o <<e1>> \o WireInverse(w2) \o <<EdgeInverse(e0)>>
                      /\ b1 = w1 \o <<e0>> \o WireInverse(w3) \o <<EdgeInverse(e1)>>
               /\ HasSurface(result.faces[1], SurfaceHomotopy(CurveOfWire(w0), CurveOfWire(w2)))
               /\ HasSurface(result.faces[2], SurfaceHomotopy(CurveOfWire(w1), CurveOfWire(w3)))

\* The statement of C3 for closed wires of at least two edges each.
ClosedTwoFacesFromTwoEdges ==
    (ClosedCall /\ Len(operands[1].edges) >= 2 /\ Len(operands[2].edges) >= 2)
        => C3_ClosedTwoFaces

\* The statement of C2 when c1 is a single edge.
OpenBoundarySingleEdge == (OpenCall /\ Len(operands[2].edges) = 1) => C2_OpenBoundary

\* the boundary of a face is a closed, continuous, non-empty chain of edges
BoundaryClosed(w) ==
    /\ Len(w) > 0
    /\ IsContinuous(w)
    /\ EdgeBack(w[Len(w)]) = EdgeFront(w[1])

\* C4: every face of a shell that homotopy returned Ok has a non-empty boundary
\* in which each edge ends where the next begins, the last ending where the first
\* begins.
C4_FaceBoundariesClosed ==
    (Returned /\ result.kind = "Ok") =>
        \A i \in 1..Len(result.faces) : BoundaryClosed(result.faces[i].boundary)

\* C4 witness: a two-face shell has been returned for a closed wire of three edges.
C4_Witness ==
    /\ Returned
    /\ result.kind = "Ok"
    /\ Len(result.faces) = 2
    /\ Len(operands[1].edges) = 3

\* C5: a call that returns an error leaves the binding as it was before the call.
C5_AtomicOnError == (Returned /\ result.kind = "Err") => director = before.dir

\* C6: the call never aborts and never drops the failure of a sub-step.
C6_NoAbortNoSwallow == Returned => (result.kind # "Abort" /\ swallowed = 0)

(***************************************************************************)
(* Surfaces and curves for the tessellation (truck_geometry, from the      *)
(* written specification, sections 3 and 4.2).  Parameters and coordinates *)
(* are integers.  A surface has two knot vectors and an evaluation; the    *)
(* "plane" is one-to-one, the "tube" is closed in u: its first and last u  *)
(* give the same points, as on any surface of revolution by a full turn.   *)
(***************************************************************************)
range_length(knots) == knots[Len(knots)] - knots[1]

PlaneSurface ==
    [kind |-> "plane", uknots |-> <<16777216, 16777216, 16777266, 16777266>>,
     vknots |-> <<0, 0, 50, 50>>]

TubeSurface == [kind |-> "tube", uknots |-> <<0, 0, 50, 50>>, vknots |-> <<0, 0, 50, 50>>]

\* the cross-section of the tube: a closed polygon, run through once over the
\* u range
TubeSection(surface, u) ==
    LET w == ((u - surface.uknots[1]) * 50) \div range_length(surface.uknots)
    IN  IF w <= 15 THEN <<w, 0>>
        ELSE IF w <= 25 THEN <<15, w - 15>>
        ELSE IF w <= 40 THEN <<40 - w, 10>>
        ELSE <<0, 50 - w>>

\* surface.subs(u, v)
SurfaceSubs(surface, u, v) ==
    IF surface.kind = "plane" THEN <<u, v, 0>>
    ELSE <<TubeSection(surface, u)[1], TubeSection(surface, u)[2], v>>

\* the knot domain of the surface
SurfaceDomain(surface) ==
    (surface.uknots[1] .. surface.uknots[Len(surface.uknots)])
        \X (surface.vknots[1] .. surface.vknots[Len(surface.vknots)])

\* distance2
Distance2(a, b) ==
    (a[1] - b[1]) * (a[1] - b[1]) + (a[2] - b[2]) * (a[2] - b[2])
        + (a[3] - b[3]) * (a[3] - b[3])

\* the parameter pairs of the knot domain whose surface point is the given point
Preimages(surface, pt) ==
    { <<d[1], d[2]>> :
        d \in { c \in SurfaceDomain(surface) : SurfaceSubs(surface, c[1], c[2]) = pt } }

\* surface.search_parameter(pt, hint): a parameter pair whose surface point is
\* the given point (one of `solutions`), or a failure (the iteration did not
\* converge).
SearchOutcomes(solutions, h) ==
    { [some |-> TRUE, p |-> q] : q \in solutions } \cup { [some |-> FALSE, p |-> h] }

\* A curve on a surface through the given parameter pairs; its division is the
\* sequence of its sample parameters, first to last, and subs(t) the t-th sample.
CurveOn(surface, params) ==
    [pts |-> [i \in 1..Len(params) |-> SurfaceSubs(surface, params[i][1], params[i][2])]]

\* curve.parameter_division(0.005)
ParameterDivision(curve) == [i \in 1..Len(curve.pts) |-> i]

\* curve.subs(t)
CurveSubs(curve, t) == curve.pts[t]

(***************************************************************************)
(* presearch (shaperend.rs, 14-32).                                        *)
(***************************************************************************)
N == 50

\* the grid of the two loops: i in 0..=N outside, j in 0..=N inside
presearch_grid == (0..N) \X (0..N)

\* lines 20-21: the parameter pair at grid index (i, j)
presearch_uv(surface, ij) ==
    << surface.uknots[1] + (ij[1] * range_length(surface.uknots)) \div N,
       surface.vknots[1] + (ij[2] * range_length(surface.vknots)) \div N >>

\* presearch with `dist <= min`: the last grid point at which the least
\* distance is taken
presearch_last_least(surface, point) ==
    LET dist == [ij \in presearch_grid |->
                    LET uv == presearch_uv(surface, ij)
                    IN  Distance2(SurfaceSubs(surface, uv[1], uv[2]), point)]
        dists == {dist[ij] : ij \in presearch_grid}
        min == CHOOSE m \in dists : \A x \in dists : m <= x
        least == { <<ij[1], ij[2]>> : ij \in {g \in presearch_grid : dist[g] = min} }
        res == CHOOSE ij \in least :
                   \A o \in least : ij[1] > o[1] \/ (ij[1] = o[1] /\ ij[2] >= o[2])
    IN  presearch_uv(surface, res)

\* Lines 16-31.  min starts at INFINITY and res is replaced only when
\* dist < min, strictly: the loops leave in res the first grid point, in the
\* order they visit the grid, at which the least distance over the grid is
\* taken.
presearch(surface, point) ==
    LET dist == [ij \in presearch_grid |->
                    LET uv == presearch_uv(surface, ij)
                    IN  Distance2(SurfaceSubs(surface, uv[1], uv[2]), point)]
        dists == {dist[ij] : ij \in presearch_grid}
        min == CHOOSE m \in dists : \A x \in dists : m <= x
        least == { <<ij[1], ij[2]>> : ij \in {g \in presearch_grid : dist[g] = min} }
        res == CHOOSE ij \in least :
                   \A o \in least : ij[1] < o[1] \/ (ij[1] = o[1] /\ ij[2] <= o[2])
    IN  presearch_uv(surface, res)

(***************************************************************************)
(* face_buffer (shaperend.rs, 34-69), in steps.                            *)
(***************************************************************************)
\* `as f32`: an integer of more than 24 significant bits is rounded to the
\* nearest representable one, ties to even
F32Digits == 24

RECURSIVE F32Ulp(_, _)
F32Ulp(m, q) == IF m < (2 ^ F32Digits) * q THEN q ELSE F32Ulp(m, 2 * q)

as_f32(x) ==
    LET m == IF x < 0 THEN 0 - x ELSE x
        q == F32Ulp(m, 1)
        lo == (m \div q) * q
        r == m - lo
        a == IF 2 * r > q \/ (2 * r = q /\ (m \div q) % 2 = 1) THEN lo + q ELSE lo
    IN  IF x < 0 THEN 0 - a ELSE a

\* `as u32` of a length: the value modulo 2^32, which is the value itself for
\* every length the model's integers can hold (they end at 2^31 - 1)
as_u32(n) == IF n >= 0 THEN n ELSE n + 2147483647 + 2147483647 + 2

RECURSIVE Flatten(_)
\* face.boundary_iters().into_iter().flatten()
Flatten(loops) == IF Len(loops) = 0 THEN <<>> ELSE Head(loops) \o Flatten(Tail(loops))

FaceEdges(face) == Flatten(face.boundaries)

\* the match with None going on with the hint it had, the failure unseen
search_arm_goes_on(got, h) == [returnsNone |-> FALSE, hint |-> IF got.some THEN got.p ELSE h]

\* the match leaving the hint as it was seeded
search_arm_keeps_hint(got, h) == [returnsNone |-> ~got.some, hint |-> h]

\* lines 46-49: the match on the result of search_parameter
search_arm(got, h) == [returnsNone |-> ~got.some, hint |-> IF got.some THEN got.p ELSE h]

\* chunks of two instead of windows of two
chunks2(tb) ==
    [i \in 1..(Len(tb) \div 2) |->
        <<tb[2 * i - 1][1], tb[2 * i - 1][2], tb[2 * i][1], tb[2 * i][2]>>]

\* lines 52-54: this_boundary.windows(2), each pushed as [u0, v0, u1, v1]
windows2(tb) ==
    [i \in 1..(Len(tb) - 1) |-> <<tb[i][1], tb[i][2], tb[i + 1][1], tb[i + 1][2]>>]

\* lines 56-68: the FaceBuffer
FaceBufferOf(surface, segments) ==
    [surface |-> surface, boundary |-> segments, boundary_length |-> as_u32(Len(segments))]

Some(buffer) == [kind |-> "Some", buffer |-> buffer]

None == [kind |-> "None"]

(***************************************************************************)
(* The shapes drawn.  A face has a surface and boundary loops of edges,    *)
(* each edge a curve on the surface; every loop is closed.                 *)
(***************************************************************************)
MaxFaces == 2

\* The plane patch has its u knots from 2^24 on, where f32 has a spacing of 2:
\* a boundary parameter there need not be an f32.
PlaneFace ==
    [surface |-> PlaneSurface,
     boundaries |-> << << CurveOn(PlaneSurface, << <<16777216, 0>>, <<16777241, 0>>,
                                                  <<16777266, 50>> >>),
                          CurveOn(PlaneSurface, << <<16777266, 50>>, <<16777216, 0>> >>) >> >>]

\* The loop on the tube starts and ends at a vertex on the seam u_first = u_last.
TubeFace ==
    [surface |-> TubeSurface,
     boundaries |-> << << CurveOn(TubeSurface, << <<25, 0>>, <<50, 0>> >>),
                          CurveOn(TubeSurface, << <<0, 0>>, <<15, 0>>, <<25, 0>> >>) >> >>]

FaceKinds == {PlaneFace, TubeFace}

Shells == UNION { [1..n -> FaceKinds] : n \in 1..MaxFaces }

RECURSIVE FlatFaces(_)
\* self.boundaries().iter().flat_map(Shell::face_iter)
FlatFaces(shells) == IF Len(shells) = 0 THEN <<>> ELSE Head(shells) \o FlatFaces(Tail(shells))

\* a Shell of up to MaxFaces faces, or a Solid of two boundary shells with up
\* to MaxFaces faces together, the first of one face
Shapes ==
    { [kind |-> "Shell", shells |-> <<sh>>] : sh \in Shells }
    \cup { [kind |-> "Solid", shells |-> <<s1, s2>>] :
             s1 \in { x \in Shells : Len(x) = 1 },
             s2 \in { x \in Shells : Len(x) < MaxFaces } }

ShapeFaces(sh) == IF sh.kind = "Shell" THEN sh.shells[1] ELSE FlatFaces(sh.shells)

\* line 46 for every point of every edge of every face drawn: the parameter
\* pairs search_parameter can converge to
Solutions ==
    [f \in FaceKinds |->
        [e \in 1..Len(FaceEdges(f)) |->
            [t \in 1..Len(ParameterDivision(FaceEdges(f)[e])) |->
                Preimages(f.surface,
                          CurveSubs(FaceEdges(f)[e], ParameterDivision(FaceEdges(f)[e])[t]))]]]

\* line 42 for every edge of every face drawn: presearch at the first point of
\* the division of the edge
SeedHints ==
    [f \in FaceKinds |->
        [e \in 1..Len(FaceEdges(f)) |->
            presearch(f.surface,
                      CurveSubs(FaceEdges(f)[e], ParameterDivision(FaceEdges(f)[e])[1]))]]

(***************************************************************************)
(* The state machine of drawing one shape: into_instance once, then        *)
(* update_instance any number of times (shaperend.rs, 71-119).             *)
(***************************************************************************)
\* no homotopy call is made
HIdle ==
    /\ director = [points |-> Vertices, curves |-> BaseEdgeIds, surfaces |-> {}]
    /\ ids = [edge |-> FirstFreeEdgeId, face |-> 1]
    /\ phase = "idle"
    /\ operands = <<>>
    /\ before = [dir |-> director, ids |-> ids]
    /\ result = Ok(<<>>)
    /\ swallowed = 0

TInit ==
    /\ HIdle
    /\ GIdle
    /\ shape \in Shapes
    /\ inst = <<>>
    /\ mutex = <<>>
    /\ op = "none"
    /\ pc = "idle"
    /\ fi = 0
    /\ made = <<>>
    /\ ei = 0
    /\ ti = 0
    /\ hint = <<0, 0>>
    /\ this_boundary = <<>>
    /\ boundary = <<>>
    /\ created = {}
    /\ calls = <<>>
    /\ ret = [kind |-> "NotCalled"]
    /\ update_log = [old |-> <<>>, new |-> <<>>]

CurrentFace == ShapeFaces(shape)[fi]

CurrentEdge == FaceEdges(CurrentFace)[ei]

\* the number of faces the running operation goes through: all of them for
\* into_instance, the zip of the faces with instance.faces for update_instance
FacesToDo ==
    IF op = "update" /\ Len(inst) < Len(ShapeFaces(shape)) THEN Len(inst)
    ELSE Len(ShapeFaces(shape))

fbvars == <<ei, ti, hint, this_boundary, boundary, created, calls, ret>>

\* Shell/Solid::into_instance is called (lines 74, 97)
IntoInstance ==
    /\ UNCHANGED <<hvars, gvars>>
    /\ pc = "idle"
    /\ inst = <<>>
    /\ op' = "into"
    /\ fi' = 1
    /\ made' = <<>>
    /\ pc' = "face"
    /\ UNCHANGED <<update_log, shape, inst, mutex, fbvars>>

\* Shell/Solid::update_instance is called (lines 85, 110)
UpdateInstance ==
    /\ UNCHANGED <<hvars, gvars>>
    /\ pc = "idle"
    /\ inst # <<>>
    /\ op' = "update"
    /\ fi' = 1
    /\ update_log' = [old |-> inst, new |-> <<>>]
    /\ pc' = "face"
    /\ UNCHANGED <<shape, inst, mutex, made, fbvars>>

\* face_buffer is entered for the next face (lines 35-38)
FaceBufferBegin ==
    /\ UNCHANGED <<hvars, gvars>>
    /\ pc = "face"
    /\ fi <= FacesToDo
    /\ created' = {"vertex", "index"}
    /\ boundary' = <<>>
    /\ calls' = <<>>
    /\ ret' = [kind |-> "Running"]
    /\ ei' = 1
    /\ ti' = 0
    /\ this_boundary' = <<>>
    /\ pc' = "edge"
    /\ UNCHANGED <<update_log, shape, inst, mutex, op, fi, made, hint>>

\* the next boundary edge (lines 40-43)
EdgeBegin ==
    /\ UNCHANGED <<hvars, gvars>>
    /\ pc = "edge"
    /\ ei <= Len(FaceEdges(CurrentFace))
    /\ hint' = SeedHints[CurrentFace][ei]
    /\ this_boundary' = <<>>
    /\ ti' = 1
    /\ pc' = "point"
    /\ UNCHANGED <<update_log, shape, inst, mutex, op, fi, made, ei, boundary, created, calls, ret>>

\* the next point of the division (lines 45-50)
SearchPoint ==
    /\ UNCHANGED <<hvars, gvars>>
    /\ pc = "point"
    /\ ti <= Len(ParameterDivision(CurrentEdge))
    /\ LET pt == CurveSubs(CurrentEdge, ParameterDivision(CurrentEdge)[ti])
       IN  \E got \in SearchOutcomes(Solutions[CurrentFace][ei][ti], hint) :
              LET arm == search_arm(got, hint)
              IN  /\ calls' = Append(calls, [edge |-> ei, t |-> ti, pt |-> pt,
                                             hint |-> hint, got |-> got])
                  /\ IF arm.returnsNone
                     THEN /\ ret' = None
                          /\ pc' = "unwrap"
                          /\ UNCHANGED <<hint, this_boundary, ti>>
                     ELSE /\ hint' = arm.hint
                          /\ this_boundary' =
                                Append(this_boundary, <<as_f32(arm.hint[1]), as_f32(arm.hint[2])>>)
                          /\ ti' = ti + 1
                          /\ UNCHANGED <<ret, pc>>
    /\ UNCHANGED <<update_log, shape, inst, mutex, op, fi, made, ei, boundary, created>>

\* the division of the edge is through (lines 52-54)
EdgeEnd ==
    /\ UNCHANGED <<hvars, gvars>>
    /\ pc = "point"
    /\ ti > Len(ParameterDivision(CurrentEdge))
    /\ boundary' = boundary \o windows2(this_boundary)
    /\ ei' = ei + 1
    /\ pc' = "edge"
    /\ UNCHANGED <<update_log, shape, inst, mutex, op, fi, made, ti, hint, this_boundary,
                   created, calls, ret>>

\* all edges are through: the buffers are made (lines 56-68)
FaceBufferSome ==
    /\ UNCHANGED <<hvars, gvars>>
    /\ pc = "edge"
    /\ ei > Len(FaceEdges(CurrentFace))
    /\ created' = created \cup {"boundary", "boundary_length"}
    /\ ret' = Some(FaceBufferOf(CurrentFace.surface, boundary))
    /\ pc' = "unwrap"
    /\ UNCHANGED <<update_log, shape, inst, mutex, op, fi, made, ei, ti, hint, this_boundary,
                   boundary, calls>>

\* face_buffer(device, face).unwrap() on None (lines 78, 89, 103, 116): a panic
UnwrapNone ==
    /\ UNCHANGED <<hvars, gvars>>
    /\ pc = "unwrap"
    /\ ret.kind = "None"
    /\ pc' = "panicked"
    /\ UNCHANGED <<update_log, shape, inst, mutex, op, fi, made, fbvars>>

\* into_instance: the FaceInstance of the face is collected (lines 77-81, 102-106)
CollectFace ==
    /\ UNCHANGED <<hvars, gvars>>
    /\ pc = "unwrap"
    /\ ret.kind = "Some"
    /\ op = "into"
    /\ made' = Append(made, ret.buffer)
    /\ fi' = fi + 1
    /\ pc' = "face"
    /\ UNCHANGED <<update_log, shape, inst, mutex, op, fbvars>>

\* update_instance: the value is there (the assigned value operand is
\* evaluated first), instance.buffer.lock().unwrap() is evaluated next
\* (lines 89, 116); lock() waits while a reader holds the mutex
LockBuffer ==
    /\ UNCHANGED <<hvars, gvars>>
    /\ pc = "unwrap"
    /\ ret.kind = "Some"
    /\ op = "update"
    /\ mutex[fi] = "free"
    /\ mutex' = [mutex EXCEPT ![fi] = "held"]
    /\ update_log' = [update_log EXCEPT !.new = Append(@, ret.buffer)]
    /\ pc' = "assign"
    /\ UNCHANGED <<shape, inst, op, fi, made, fbvars>>

\* the assignment with the guard kept after it
AssignBufferKeepsGuard ==
    /\ UNCHANGED <<hvars, gvars>>
    /\ pc = "assign"
    /\ inst' = [inst EXCEPT ![fi] = ret.buffer]
    /\ fi' = fi + 1
    /\ pc' = "face"
    /\ UNCHANGED <<update_log, shape, mutex, op, made, fbvars>>

\* update_instance: the assignment through the guard, which is then dropped
AssignBuffer ==
    /\ UNCHANGED <<hvars, gvars>>
    /\ pc = "assign"
    /\ inst' = [inst EXCEPT ![fi] = ret.buffer]
    /\ mutex' = [mutex EXCEPT ![fi] = "free"]
    /\ fi' = fi + 1
    /\ pc' = "face"
    /\ UNCHANGED <<update_log, shape, op, made, fbvars>>

\* into_instance returns the ShapeInstance (lines 82, 107)
IntoInstanceReturn ==
    /\ UNCHANGED <<hvars, gvars>>
    /\ pc = "face"
    /\ op = "into"
    /\ fi > FacesToDo
    /\ inst' = made
    /\ mutex' = [i \in 1..Len(made) |-> "free"]
    /\ made' = <<>>
    /\ op' = "none"
    /\ pc' = "idle"
    /\ UNCHANGED <<update_log, shape, fi, fbvars>>

\* update_instance returns (lines 91, 118)
UpdateInstanceReturn ==
    /\ UNCHANGED <<hvars, gvars>>
    /\ pc = "face"
    /\ op = "update"
    /\ fi > FacesToDo
    /\ op' = "none"
    /\ pc' = "idle"
    /\ UNCHANGED <<update_log, shape, inst, mutex, fi, made, fbvars>>

\* A holder of a RenderFace of the instance takes the buffer's mutex
\* (instance.buffer.lock().unwrap(), lines 185, 203, 270); lock() waits while
\* the mutex is held.  One reader is followed.
ReaderLock ==
    /\ UNCHANGED <<hvars, gvars>>
    /\ \A g \in 1..Len(mutex) : mutex[g] # "read"
    /\ \E f \in 1..Len(mutex) :
          /\ mutex[f] = "free"
          /\ mutex' = [mutex EXCEPT ![f] = "read"]
    /\ UNCHANGED <<update_log, shape, inst, op, pc, fi, made, fbvars>>

\* the reader's guard is dropped at the end of its function
ReaderUnlock ==
    /\ UNCHANGED <<hvars, gvars>>
    /\ \E f \in 1..Len(mutex) :
          /\ mutex[f] = "read"
          /\ mutex' = [mutex EXCEPT ![f] = "free"]
    /\ UNCHANGED <<update_log, shape, inst, op, pc, fi, made, fbvars>>

TNext ==
    \/ IntoInstance
    \/ UpdateInstance
    \/ FaceBufferBegin
    \/ EdgeBegin
    \/ SearchPoint
    \/ EdgeEnd
    \/ FaceBufferSome
    \/ UnwrapNone
    \/ CollectFace
    \/ LockBuffer
    \/ AssignBuffer
    \/ IntoInstanceReturn
    \/ UpdateInstanceReturn
    \/ ReaderLock
    \/ ReaderUnlock

TessSpec == TInit /\ [][TNext]_vars

(***************************************************************************)
(* Properties of the tessellation.                                         *)
(***************************************************************************)
\* face_buffer has returned and its caller has not looked at the result yet
FaceBufferReturned == pc = "unwrap"

SearchFailed == \E i \in 1..Len(calls) : ~calls[i].got.some

RECURSIVE SamplePoints(_)
\* the number of sampled points over the given edges
SamplePoints(edges) ==
    IF Len(edges) = 0 THEN 0
    ELSE Len(ParameterDivision(Head(edges))) + SamplePoints(Tail(edges))

\* C7: face_buffer returns None if and only if a search_parameter call on a
\* sampled point failed; the failed call is the last one made (no search
\* follows it), and a call that returns None has made neither the boundary
\* segment buffer nor the count buffer.  A call that returns Some has searched
\* every sampled point.
C7_NoneIffSearchFailed ==
    FaceBufferReturned =>
        /\ (ret.kind = "None") <=> SearchFailed
        /\ \A i \in 1..(Len(calls) - 1) : calls[i].got.some
        /\ ret.kind = "None" => created \cap {"boundary", "boundary_length"} = {}
        /\ ret.kind = "Some" => Len(calls) = SamplePoints(FaceEdges(CurrentFace))

\* C7 witness: face_buffer has returned None at a point of the second edge,
\* after searches that succeeded.
C7_Witness ==
    /\ FaceBufferReturned
    /\ ret.kind = "None"
    /\ ei = 2
    /\ Len(calls) >= 3
    /\ ~calls[Len(calls)].got.some

\* C8: the tessellation failure of a face does not abort into_instance or
\* update_instance: control stays with the caller.
C8_FailureSurfaced == ret.kind = "None" => pc # "panicked"

RECURSIVE SegOffset(_, _)
\* the number of segments emitted for the edges before the e-th
SegOffset(edges, e) ==
    IF e = 1 THEN 0
    ELSE SegOffset(edges, e - 1) + Len(ParameterDivision(edges[e - 1])) - 1

RECURSIVE LoopOffset(_, _)
\* the number of edges in the loops before the l-th
LoopOffset(loops, l) == IF l = 1 THEN 0 ELSE LoopOffset(loops, l - 1) + Len(loops[l - 1])

\* the segments form closed polylines, loop by loop
ClosedPolylines(face, segs) ==
    \A l \in 1..Len(face.boundaries) :
        \A i \in 1..Len(face.boundaries[l]) :
            LET edges == FaceEdges(face)
                e == LoopOffset(face.boundaries, l) + i
                nxt == LoopOffset(face.boundaries, l) + (i % Len(face.boundaries[l])) + 1
                last == segs[SegOffset(edges, e) + Len(ParameterDivision(edges[e])) - 1]
                first == segs[SegOffset(edges, nxt) + 1]
            IN  <<last[3], last[4]>> = <<first[1], first[2]>>

\* C9: the segments of a face_buffer call that succeeded form closed polylines:
\* in each boundary loop the last segment of an edge ends where the first
\* segment of the next edge begins, cyclically.
C9_BoundaryPolylinesClosed ==
    (FaceBufferReturned /\ ret.kind = "Some") =>
        ClosedPolylines(CurrentFace, ret.buffer.boundary)

\* The statement of C9 for faces on the one-to-one surface.
PolylinesClosedOnPlane ==
    (FaceBufferReturned /\ ret.kind = "Some" /\ CurrentFace.surface.kind = "plane") =>
        ClosedPolylines(CurrentFace, ret.buffer.boundary)

(***************************************************************************)
(* The B-spline surface of the doc example (truck_geometry/src/lib.rs,     *)
(* 118-180): two knot vectors, a control grid, BSplineSurface::new.        *)
(* Knot values are counted in halves: 1 stands for 0.5 and 2 for 1.0.      *)
(***************************************************************************)
MaxDegree == 3
MaxGrid == 7

\* n copies of x
Repeat(x, n) == [i \in 1..n |-> x]

\* KnotVec::bezier_knot: 0 and 1, each with multiplicity degree + 1
bezier_knot(degree) == Repeat(0, degree + 1) \o Repeat(2, degree + 1)

\* line 125
doc_knot_vec0 == bezier_knot(3)

\* lines 126-128
doc_knot_vec1 == <<0, 0, 0, 0, 1, 1, 1, 2, 2, 2, 2>>

\* vec![vec![Vector4::zero(); cols]; rows]; the entries assigned afterwards
\* (lines 133-160) change no length
ControlGrid(rows, cols) == Repeat(Repeat(0, cols), rows)

\* the grid with its two lengths exchanged
doc_control_points_transposed == ControlGrid(7, 4)

\* line 132
doc_control_points == ControlGrid(4, 7)

\* the sequences handed to KnotVec::from: clamped at both ends with
\* multiplicity degree + 1, and the middle knot 0.5 with multiplicity m.  They
\* are non-decreasing, and KnotVec::from keeps such a sequence as it is.
KnotSequences ==
    { Repeat(0, d + 1) \o Repeat(1, m) \o Repeat(2, d + 1) :
        d \in 1..MaxDegree, m \in 0..MaxDegree }

\* the degrees inferred from the lengths:
\* len(control_points) + degree + 1 == len(knot_vec)
udegree(b) == Len(b.knot_vecs[1]) - Len(b.control_points) - 1
vdegree(b) == Len(b.knot_vecs[2]) - Len(b.control_points[1]) - 1

GInit ==
    /\ HIdle
    /\ TIdle
    /\ GIdle

\* line 125: KnotVec::bezier_knot(degree)
MakeKnotVec0 ==
    /\ gpc = "idle"
    /\ \E degree \in 1..MaxDegree : knot_vec0' = bezier_knot(degree)
    /\ gpc' = "knot_vec0"
    /\ UNCHANGED <<knot_vec1, control_points, bspline, hvars, tvars>>

\* lines 126-128: KnotVec::from(vec![...])
MakeKnotVec1 ==
    /\ gpc = "knot_vec0"
    /\ \E xs \in KnotSequences : knot_vec1' = xs
    /\ gpc' = "knot_vec1"
    /\ UNCHANGED <<knot_vec0, control_points, bspline, hvars, tvars>>

\* lines 132-160: the control grid
MakeControlPoints ==
    /\ gpc = "knot_vec1"
    /\ \E rows \in 1..MaxGrid, cols \in 1..MaxGrid :
          control_points' = ControlGrid(rows, cols)
    /\ gpc' = "control_points"
    /\ UNCHANGED <<knot_vec0, knot_vec1, bspline, hvars, tvars>>

\* line 163: BSplineSurface::new(knot_vecs, v), for knot vectors longer than
\* the grid in their direction
BSplineSurfaceNew ==
    /\ gpc = "control_points"
    /\ Len(knot_vec0) > Len(control_points)
    /\ Len(knot_vec1) > Len(control_points[1])
    /\ bspline' = [kind |-> "Built",
                   knot_vecs |-> <<knot_vec0, knot_vec1>>,
                   control_points |-> control_points]
    /\ gpc' = "built"
    /\ UNCHANGED <<knot_vec0, knot_vec1, control_points, hvars, tvars>>

GNext ==
    \/ MakeKnotVec0
    \/ MakeKnotVec1
    \/ MakeControlPoints
    \/ BSplineSurfaceNew

GeomSpec == GInit /\ [][GNext]_vars

(***************************************************************************)
(* Properties of the doc-example surface.                                  *)
(***************************************************************************)
\* the surface built is the one of the doc example
DocExampleBuilt ==
    /\ bspline.kind = "Built"
    /\ bspline.knot_vecs = <<doc_knot_vec0, doc_knot_vec1>>
    /\ bspline.control_points = doc_control_points

\* C10 as stated: the doc-example surface satisfies
\* len(control_points) + degree + 1 == len(knot_vec) in both directions with
\* degrees (3, 2).
C10_DocExampleDegrees32 ==
    DocExampleBuilt =>
        /\ Len(bspline.control_points) + 3 + 1 = Len(bspline.knot_vecs[1])
        /\ Len(bspline.control_points[1]) + 2 + 1 = Len(bspline.knot_vecs[2])

\* C10 amended: the doc-example surface satisfies
\* len(control_points) + degree + 1 == len(knot_vec) in both directions with
\* degrees (3, 3), and these are the degrees inferred from its lengths.
C10_DocExampleDegrees33 ==
    DocExampleBuilt =>
        /\ Len(bspline.control_points) + 3 + 1 = Len(bspline.knot_vecs[1])
        /\ Len(bspline.control_points[1]) + 3 + 1 = Len(bspline.knot_vecs[2])
        /\ <<udegree(bspline), vdegree(bspline)>> = <<3, 3>>

\* C10 witness: BSplineSurface::new has built the doc-example surface: 4 rows
\* of 7 control points, 8 and 11 knots.
C10_Witness ==
    /\ gpc = "built"
    /\ DocExampleBuilt
    /\ Len(bspline.control_points) = 4
    /\ Len(bspline.control_points[1]) = 7
    /\ Len(bspline.knot_vecs[1]) = 8
    /\ Len(bspline.knot_vecs[2]) = 11

(***************************************************************************)
(* Properties of the hints and of the segments of face_buffer.             *)
(***************************************************************************)
\* face_buffer is running for the face at fi, or has just returned
InFaceBuffer == pc \in {"edge", "point", "unwrap"}

\* C11: for every boundary edge the first search_parameter call has as hint
\* the presearch result for the curve point at division[0], whatever the
\* previous edge ended with, and every later call on the edge has as hint
\* exactly the result of the call before it on the same edge.
C11_HintChain ==
    InFaceBuffer =>
        \A i \in 1..Len(calls) :
            IF calls[i].t = 1
            THEN calls[i].hint = SeedHints[CurrentFace][calls[i].edge]
            ELSE /\ i > 1
                 /\ calls[i - 1].edge = calls[i].edge
                 /\ calls[i - 1].t = calls[i].t - 1
                 /\ calls[i - 1].got.some
                 /\ calls[i].hint = calls[i - 1].got.p

\* C11 witness: the first call on the second edge had the presearch result as
\* hint, which is not what the last call on the first edge found, and a later
\* call on that edge had the result before it as hint.
C11_Witness ==
    /\ InFaceBuffer
    /\ \E i \in 2..Len(calls) :
          /\ calls[i].edge = 2
          /\ calls[i].t = 1
          /\ calls[i - 1].got.some
          /\ calls[i].hint # calls[i - 1].got.p
          /\ calls[i].hint = SeedHints[CurrentFace][2]
    /\ \E i \in 2..Len(calls) :
          /\ calls[i].edge = 2
          /\ calls[i].t = 2
          /\ calls[i].hint = calls[i - 1].got.p
          /\ calls[i].hint # SeedHints[CurrentFace][2]

\* the index in calls of the call before the first call on edge e
CallOffset(edges, e) == SamplePoints(SubSeq(edges, 1, e - 1))

\* the segments of edge e from the search results, each coordinate as it was
\* found
EdgeSegmentsExact(edges, e) ==
    LET off == CallOffset(edges, e)
    IN  [k \in 1..(Len(ParameterDivision(edges[e])) - 1) |->
            << calls[off + k].got.p[1], calls[off + k].got.p[2],
               calls[off + k + 1].got.p[1], calls[off + k + 1].got.p[2] >>]

\* the segments of edge e from the search results, each coordinate converted
\* to f32
EdgeSegmentsF32(edges, e) ==
    LET off == CallOffset(edges, e)
    IN  [k \in 1..(Len(ParameterDivision(edges[e])) - 1) |->
            << as_f32(calls[off + k].got.p[1]), as_f32(calls[off + k].got.p[2]),
               as_f32(calls[off + k + 1].got.p[1]), as_f32(calls[off + k + 1].got.p[2]) >>]

RECURSIVE AllSegmentsExact(_, _)
AllSegmentsExact(edges, e) ==
    IF e = 0 THEN <<>>
    ELSE AllSegmentsExact(edges, e - 1) \o EdgeSegmentsExact(edges, e)

RECURSIVE AllSegmentsF32(_, _)
AllSegmentsF32(edges, e) ==
    IF e = 0 THEN <<>>
    ELSE AllSegmentsF32(edges, e - 1) \o EdgeSegmentsF32(edges, e)

\* the sum over the edges of (n_e - 1)
SegmentCount(edges) == SamplePoints(edges) - Len(edges)

\* C12 as stated: on success the segments are, edge by edge, the n - 1
\* consecutive pairs [p_k.u, p_k.v, p_{k+1}.u, p_{k+1}.v] of the search results,
\* and boundary_length is their number, the sum over the edges of (n_e - 1).
C12_SegmentsAreResults ==
    (FaceBufferReturned /\ ret.kind = "Some") =>
        LET edges == FaceEdges(CurrentFace)
        IN  /\ ret.buffer.boundary = AllSegmentsExact(edges, Len(edges))
            /\ ret.buffer.boundary_length = Len(ret.buffer.boundary)
            /\ ret.buffer.boundary_length = SegmentCount(edges)

\* C12 amended: on success the segments are, edge by edge, the n - 1
\* consecutive pairs of the search results with every coordinate converted to
\* f32, and boundary_length is their number, the sum over the edges of (n_e - 1).
C12_SegmentsAreResultsAsF32 ==
    (FaceBufferReturned /\ ret.kind = "Some") =>
        LET edges == FaceEdges(CurrentFace)
        IN  /\ ret.buffer.boundary = AllSegmentsF32(edges, Len(edges))
            /\ ret.buffer.boundary_length = Len(ret.buffer.boundary)
            /\ ret.buffer.boundary_length = SegmentCount(edges)

\* C12 witness: face_buffer has returned the three segments of a face of two
\* edges with three and two points, one coordinate of which is not the search
\* result but its f32.
C12_Witness ==
    /\ FaceBufferReturned
    /\ ret.kind = "Some"
    /\ Len(ret.buffer.boundary) = 3
    /\ ret.buffer.boundary_length = 3
    /\ \E i \in 1..Len(calls) : as_f32(calls[i].got.p[1]) # calls[i].got.p[1]

(***************************************************************************)
(* Properties of split_wire and of the shell of two closed wires.          *)
(***************************************************************************)
\* split_wire of the element is what the statement says of it
SplitAsStated(el) ==
    LET n == Len(el.edges)
        parts == split_wire(el)
    IN  IF el.kind = "Edge" \/ n < 2 THEN parts = <<>>
        ELSE /\ Len(parts) = 2
             /\ parts[1] = SubSeq(el.edges, 1, n \div 2)
             /\ parts[2] = SubSeq(el.edges, n \div 2 + 1, n)
             /\ Len(parts[1]) = n \div 2
             /\ Len(parts[2]) = n - n \div 2
             /\ Len(parts[1]) > 0
             /\ Len(parts[2]) > 0
             /\ parts[1] \o parts[2] = el.edges
             /\ clone_wire(el) = el.edges

\* C14: split_wire on a wire of n edges is None when n < 2 (and for an Edge),
\* and otherwise the first n \div 2 edges and the remaining n - n \div 2 edges:
\* both parts non-empty, their concatenation the wire, which stays as it was.
C14_SplitWire == Returned => (SplitAsStated(operands[1]) /\ SplitAsStated(operands[2]))

\* C14 witness: a call has split a closed wire of three edges into one edge and
\* two edges, and made the two faces from the halves.
C14_Witness ==
    /\ ClosedCall
    /\ result.kind = "Ok"
    /\ Len(operands[1].edges) = 3
    /\ Len(split_wire(operands[1])[1]) = 1
    /\ Len(split_wire(operands[1])[2]) = 2
    /\ SubSeq(result.faces[1].boundary, 1, 1) = split_wire(operands[1])[1]
    /\ SubSeq(result.faces[2].boundary, 1, 2) = split_wire(operands[1])[2]

\* the number of places of the wire at which the oriented edge stands
Occurrences(w, e) == Cardinality({i \in 1..Len(w) : w[i] = e})

\* the number of places of the wire at which the edge stands in either orientation
UsesOf(w, id) == Cardinality({i \in 1..Len(w) : w[i].id = id})

\* C15: in the two-face shell returned for two closed wires of at least two
\* edges each, each of the two bridging edges stands exactly once in each face's
\* boundary, with opposite orientations in the two faces; every edge of c0
\* stands exactly once over both boundaries, in its own orientation; every edge
\* of c1 stands exactly once over both boundaries, inverted; the boundaries hold
\* nothing else.
C15_ShellEdgeUse ==
    (ClosedCall /\ result.kind = "Ok"
        /\ Len(operands[1].edges) >= 2 /\ Len(operands[2].edges) >= 2) =>
        /\ Len(result.faces) = 2
        /\ LET c0 == operands[1].edges
               c1 == operands[2].edges
               b0 == result.faces[1].boundary
               b1 == result.faces[2].boundary
               both == b0 \o b1
               bridges == {both[i].id : i \in 1..Len(both)} \ BaseEdgeIds
           IN  /\ Cardinality(bridges) = 2
               /\ \A x \in bridges :
                     /\ UsesOf(b0, x) = 1
                     /\ UsesOf(b1, x) = 1
                     /\ \E i \in 1..Len(b0), j \in 1..Len(b1) :
                           /\ b0[i].id = x
                           /\ b1[j].id = x
                           /\ b0[i] = EdgeInverse(b1[j])
               /\ \A i \in 1..Len(c0) :
                     /\ Occurrences(both, c0[i]) = 1
                     /\ UsesOf(both, c0[i].id) = 1
               /\ \A i \in 1..Len(c1) :
                     /\ Occurrences(both, EdgeInverse(c1[i])) = 1
                     /\ UsesOf(both, c1[i].id) = 1
               /\ Len(both) = Len(c0) + Len(c1) + 4

\* C15 witness: a two-face shell has been returned for closed wires of three and
\* two edges.
C15_Witness ==
    /\ ClosedCall
    /\ result.kind = "Ok"
    /\ Len(result.faces) = 2
    /\ Len(operands[1].edges) = 3
    /\ Len(operands[2].edges) = 2

(***************************************************************************)
(* Properties of the geometry lookups of a homotopy call.                  *)
(***************************************************************************)
\* an edge of an operand had no curve registered when the call began
OperandGeometryMissing ==
    \E i \in 1..2 : \E j \in 1..Len(operands[i].edges) :
        operands[i].edges[j].id \notin before.dir.curves

\* C16: an open or a closed homotopy call with an operand (or operand half)
\* that has no registered geometry returns the NoGeometry error, and the
\* identity counters and the binding are as they were before the call.
C16_NoGeometryBeforeBridges ==
    ((OpenCall \/ ClosedCall) /\ OperandGeometryMissing) =>
        /\ result = Err("NoGeometry")
        /\ director = before.dir
        /\ ids = before.ids

\* The statement of C16 for the calls that do not abort at split_wire: open
\* calls, and closed calls of wires of at least two edges each.
NoGeometryBeforeBridgesUnlessAbort ==
    (OpenCall \/ (ClosedCall /\ Len(operands[1].edges) >= 2 /\ Len(operands[2].edges) >= 2))
        => C16_NoGeometryBeforeBridges

(***************************************************************************)
(* Properties of presearch.                                                *)
(***************************************************************************)
\* the parameter pair i/50 and j/50 of the way through the two knot ranges
GridPair(surface, i, j) ==
    << surface.uknots[1] + (i * (surface.uknots[Len(surface.uknots)] - surface.uknots[1])) \div 50,
       surface.vknots[1] + (j * (surface.vknots[Len(surface.vknots)] - surface.vknots[1])) \div 50 >>

\* res is a pair of the 51 x 51 grid whose surface point is at least squared
\* distance from the point among all pairs of the grid, the first such pair in
\* i-major, j-minor order, and it lies in the knot domain
PresearchAsStated(surface, point, res) ==
    LET indices == (0..50) \X (0..50)
        d(i, j) == LET uv == GridPair(surface, i, j)
                   IN  Distance2(SurfaceSubs(surface, uv[1], uv[2]), point)
    IN  /\ Cardinality(indices) = 51 * 51
        /\ res \in SurfaceDomain(surface)
        /\ \E ij \in indices :
              /\ GridPair(surface, ij[1], ij[2]) = res
              /\ \A g \in indices :
                    \/ d(ij[1], ij[2]) < d(g[1], g[2])
                    \/ /\ d(ij[1], ij[2]) = d(g[1], g[2])
                       /\ (ij[1] < g[1] \/ (ij[1] = g[1] /\ ij[2] <= g[2]))

\* presearch at every sampled point of every edge of the faces drawn, and
\* whether its result is as stated
PresearchChecked ==
    [f \in FaceKinds |->
        [e \in 1..Len(FaceEdges(f)) |->
            [t \in 1..Len(ParameterDivision(FaceEdges(f)[e])) |->
                LET point == CurveSubs(FaceEdges(f)[e], ParameterDivision(FaceEdges(f)[e])[t])
                    res == presearch(f.surface, point)
                IN  [res |-> res, stated |-> PresearchAsStated(f.surface, point, res)]]]]

\* C13: presearch returns a pair of the 51 x 51 grid u = u_first + (i/50) *
\* u_range, v = v_first + (j/50) * v_range whose surface point has the least
\* squared distance to the target among all grid pairs, the first such pair in
\* i-major, j-minor order, and the pair lies in the knot domain of the surface:
\* so for the seed of every edge, and for presearch at every sampled point of it.
C13_PresearchGridMinimum ==
    (pc = "point" /\ ti = 1) =>
        /\ hint = PresearchChecked[CurrentFace][ei][1].res
        /\ \A t \in 1..Len(ParameterDivision(CurrentEdge)) :
              PresearchChecked[CurrentFace][ei][t].stated

\* C13 witness: an edge has been seeded at a point that two grid pairs, (0, 0)
\* and (50, 0), give exactly: the seed is the first of them.
C13_Witness ==
    /\ pc = "point"
    /\ ti = 1
    /\ CurrentFace.surface.kind = "tube"
    /\ SurfaceSubs(CurrentFace.surface, 0, 0) = CurveSubs(CurrentEdge, 1)
    /\ SurfaceSubs(CurrentFace.surface, 50, 0) = CurveSubs(CurrentEdge, 1)
    /\ hint = <<0, 0>>

(***************************************************************************)
(* Properties of update_instance and the buffer mutexes.                   *)
(***************************************************************************)
\* face_buffer is running
Tessellating == pc \in {"edge", "point"}

\* C17: update_instance holds the mutex of a face only for the assignment of
\* the buffer face_buffer has already returned: no mutex is held by it while
\* face_buffer runs, so a reader waits for it only during an assignment.  When
\* face_buffer fails at the k-th face, the faces before k hold their new
\* buffers, the faces from k on hold the buffers they had when update_instance
\* began, and update_instance holds no mutex (none is poisoned by its panic).
C17_LockOnlyToAssign ==
    /\ \A f \in 1..Len(mutex) :
          mutex[f] = "held" =>
              /\ op = "update"
              /\ pc = "assign"
              /\ f = fi
              /\ ret.kind = "Some"
              /\ ~Tessellating
    /\ (op = "update" /\ pc = "panicked") =>
          /\ ret.kind = "None"
          /\ Len(inst) = Len(update_log.old)
          /\ Len(update_log.new) = fi - 1
          /\ \A j \in 1..Len(inst) :
                /\ j < fi => inst[j] = update_log.new[j]
                /\ j >= fi => inst[j] = update_log.old[j]
                /\ mutex[j] # "held"

\* C17 witness: update_instance has given the first face a buffer other than
\* the one it had and has panicked at the second face, whose mutex a reader
\* holds.
C17_Witness ==
    /\ op = "update"
    /\ pc = "panicked"
    /\ fi = 2
    /\ inst[1] # update_log.old[1]
    /\ inst[1] = update_log.new[1]
    /\ inst[2] = update_log.old[2]
    /\ mutex[2] = "read"

====
